---- MODULE Spec2Model ----
(***************************************************************************)
(* Model of the FHIRPath indexer (src/src/indexer.ts): the Expression      *)
(* Extractor (extractExpressions), the Path-Provenance Adapter             *)
(* (evaluateWithPaths, getPathFunction, buildFullPath), the Filter         *)
(* Projector (extractFilterValues, evaluateSimple) and the Index           *)
(* Materializer (runIndexer with readNdjson, initDatabase, insertMany).    *)
(*                                                                         *)
(* Conventions.                                                            *)
(*  - FHIRPath expression strings are sequences of one-character strings,  *)
(*    so that the regular expression of hasUnboundVariables is computed    *)
(*    character by character.  A missing optional string and the empty     *)
(*    string are both the empty sequence: the code only tests such fields  *)
(*    for truthiness, which cannot tell them apart.                        *)
(*  - An optional object field is None (absent) or Some(x).                *)
(*  - The external evaluator fhirpath.evaluate is a fixed table over a     *)
(*    small set of fixture resources.                                      *)
(***************************************************************************)
EXTENDS Integers, Sequences, FiniteSets, TLC

VARIABLES
    registry,        \* the parsed view registry (YAML.parse of viewsPath)
    lines,           \* the lines of the NDJSON input file
    BATCH_SIZE,      \* the flush threshold of runIndexer
    pc,              \* position of runIndexer
    expressions,     \* const expressions = extractExpressions(registry)
    dbFile,          \* what is at outputDbPath: "absent", "prior" or "new"
    priorIndex,      \* the fhirpath_index rows at outputDbPath before the run
    transactions,    \* the number of rows of each committed insertMany call
    dbOpen,          \* the Database handle is open
    tblExpressions,  \* rows of table expressions
    tblViews,        \* rows of table views
    fhirpath_index,  \* rows of table fhirpath_index, in insertion order
    idx_expr_type,   \* number of times idx_expr_type was created
    linePos,         \* number of input lines consumed by readNdjson
    resource,        \* the record being processed
    resourceCount,
    rowCount,
    batch,           \* let batch: FhirpathIndexRow[]
    exprPos,         \* position of "for (const expr of expressions)"
    results,         \* const results = evaluateWithPaths(...)
    itemPos,         \* position of "for (const result of results)"
    exitCode,        \* process exit status: -1 while running
    genPc,           \* position of main of generate-medications.ts
    rxnormData,      \* const rxnormData = await loadRxNormData(rxnormPath)
    output,          \* the Medication records written by the running run
    previousOutput   \* the records written by the run before, if any

vars == <<registry, lines, BATCH_SIZE, pc, expressions, dbFile, priorIndex,
          transactions,
          dbOpen, tblExpressions, tblViews, fhirpath_index, idx_expr_type, linePos,
          resource, resourceCount, rowCount, batch, exprPos, results,
          itemPos, exitCode, genPc, rxnormData, output, previousOutput>>

\* the state of the synthetic data generator
genVars == <<genPc, rxnormData, output, previousOutput>>

\* the state of the indexer
indexerVars ==
    <<registry, lines, BATCH_SIZE, pc, expressions, dbFile, priorIndex,
      transactions, dbOpen, tblExpressions, tblViews, fhirpath_index, idx_expr_type,
      linePos, resource, resourceCount, rowCount, batch, exprPos, results,
      itemPos, exitCode>>

---------------------------------------------------------------------------
(* Bounds *)

MaxBlocks == 3      \* blocks of a registry, over its two views
MaxLines == 3       \* lines of the input file
MaxBatchSize == 3   \* BATCH_SIZE ranges over 1..MaxBatchSize
MaxCount == 1       \* count, the records one run of the generator writes
MaxLiveLines == 1   \* lines of the input file under SpecLive

---------------------------------------------------------------------------
(* Optional values and strings *)

None == <<>>
Some(x) == <<x>>
IsSome(o) == Len(o) > 0
Get(o) == o[1]

\* [a-zA-Z], \d and \w of the regular expression
Letters ==
    {"a", "b", "c", "d", "e", "f", "g", "h", "i", "j", "k", "l", "m", "n",
     "o", "p", "q", "r", "s", "t", "u", "v", "w", "x", "y", "z",
     "A", "B", "C", "D", "E", "F", "G", "H", "I", "J", "K", "L", "M", "N",
     "O", "P", "Q", "R", "S", "T", "U", "V", "W", "X", "Y", "Z"}
Digits == {"0", "1", "2", "3", "4", "5", "6", "7", "8", "9"}
WordChars == Letters \cup Digits \cup {"_"}

\* The expression strings of the fixture registries.
ExprCode == <<"c", "o", "d", "e">>
ExprStatus == <<"s", "t", "a", "t", "u", "s">>
ExprOne == <<"1">>
ExprResource == <<"%", "r", "e", "s", "o", "u", "r", "c", "e", ".", "i", "d">>
ExprResourcex == <<"%", "r", "e", "s", "o", "u", "r", "c", "e", "x">>
ExprVar == <<"c", "o", "d", "e", "=", "%", "s">>
ExprThis == <<"$", "t", "h", "i", "s">>
ExprThisOne == <<"$", "t", "h", "i", "s", "|", "1">>
ExprFalse == <<"f", "a", "l", "s", "e">>
ExprZero == <<"0">>
ExprEmpty == <<"'", "'">>

ResourceWord == <<"r", "e", "s", "o", "u", "r", "c", "e">>

\* "resource\b" matches at position i of s
MatchesResourceB(s, i) ==
    /\ i + 7 <= Len(s)
    /\ SubSeq(s, i, i + 7) = ResourceWord
    /\ (i + 8 > Len(s) \/ s[i + 8] \notin WordChars)

\* /%(?!resource\b)[a-zA-Z]/.test(expression)
hasUnboundVariables(expression) ==
    \E i \in 1..Len(expression) :
        /\ expression[i] = "%"
        /\ ~MatchesResourceB(expression, i + 1)
        /\ i + 1 <= Len(expression)
        /\ expression[i + 1] \in Letters

---------------------------------------------------------------------------
(* View registry shapes (src/src/types.ts) *)

ViewVariable(name, type, optionsExpression, valueExpression) ==
    [name |-> name, type |-> type, optionsExpression |-> optionsExpression,
     valueExpression |-> valueExpression]

ViewColumn(header, path) == [header |-> header, path |-> path]

MarkdownBlock ==
    [type |-> "markdown", expression |-> <<>>, variables |-> <<>>,
     columns |-> None]

FhirpathTableBlock(expression, variables, columns) ==
    [type |-> "fhirpath-table", expression |-> expression,
     variables |-> variables, columns |-> Some(columns)]

FhirpathListBlock(expression, variables) ==
    [type |-> "fhirpath-list", expression |-> expression,
     variables |-> variables, columns |-> None]

ViewDefinition(id, blocks) == [id |-> id, blocks |-> blocks]

---------------------------------------------------------------------------
(* Expression Extractor *)

\* seen.has(expr)
SeenHas_never(seen, expr) == FALSE

SeenHas(seen, expr) == expr \in seen

\* `expr_${expressions.length}`
NextExprId_offByOne(exprs) == "expr_" \o ToString(Len(exprs) + 1)

NextExprId(exprs) == "expr_" \o ToString(Len(exprs))

RECURSIVE MapColumns(_)
\* block.columns.map(col => ({name: col.header, path: col.path}))
MapColumns(columns) ==
    IF columns = <<>> THEN <<>>
    ELSE <<[name |-> Head(columns).header, path |-> Head(columns).path]>>
         \o MapColumns(Tail(columns))

RECURSIVE CollectFilters(_)
\* the loop over block.variables that fills const filters
CollectFilters(variables) ==
    IF variables = <<>> THEN <<>>
    ELSE LET v == Head(variables)
         IN (IF v.type = "filter" /\ v.valueExpression # <<>>
             THEN <<[name |-> v.name, valueExpression |-> v.valueExpression]>>
             ELSE <<>>) \o CollectFilters(Tail(variables))

\* the ExpressionToIndex built for a block's own expression
BlockToIndex(acc, block) ==
    [id |-> NextExprId(acc.expressions),
     expression |-> block.expression,
     projections |->
        IF block.type = "fhirpath-table" /\ IsSome(block.columns)
        THEN Some(MapColumns(Get(block.columns))) ELSE None,
     filters |->
        IF CollectFilters(block.variables) # <<>>
        THEN Some(CollectFilters(block.variables)) ELSE None]

\* if (!seen.has(expr)) { seen.add(expr); ...; expressions.push(toIndex) }
AddBlockExpression(acc, block) ==
    IF ~SeenHas(acc.seen, block.expression)
    THEN [expressions |-> Append(acc.expressions, BlockToIndex(acc, block)),
          seen |-> acc.seen \cup {block.expression}]
    ELSE acc

\* one iteration of "for (const variable of block.variables)"
AddOptionsExpression(acc, variable) ==
    IF variable.optionsExpression # <<>>
       /\ ~SeenHas(acc.seen, variable.optionsExpression)
    THEN [expressions |->
             Append(acc.expressions,
                    [id |-> NextExprId(acc.expressions),
                     expression |-> variable.optionsExpression,
                     projections |-> None, filters |-> None]),
          seen |-> acc.seen \cup {variable.optionsExpression}]
    ELSE acc

RECURSIVE AddOptionsExpressions(_, _)
AddOptionsExpressions(acc, variables) ==
    IF variables = <<>> THEN acc
    ELSE AddOptionsExpressions(AddOptionsExpression(acc, Head(variables)),
                               Tail(variables))

\* the body of "for (const block of view.blocks)"
ProcessBlock(acc, block) ==
    IF block.type = "markdown" THEN acc
    ELSE IF hasUnboundVariables(block.expression) THEN acc
    ELSE AddOptionsExpressions(AddBlockExpression(acc, block),
                               block.variables)

RECURSIVE ProcessBlocks(_, _)
ProcessBlocks(acc, blocks) ==
    IF blocks = <<>> THEN acc
    ELSE ProcessBlocks(ProcessBlock(acc, Head(blocks)), Tail(blocks))

RECURSIVE ProcessViews(_, _)
ProcessViews(acc, views) ==
    IF views = <<>> THEN acc
    ELSE ProcessViews(ProcessBlocks(acc, Head(views).blocks), Tail(views))

extractExpressions(reg) ==
    ProcessViews([expressions |-> <<>>, seen |-> {}], reg.views).expressions

---------------------------------------------------------------------------
(* JavaScript values *)

Undefined == "<undefined>"   \* a missing field of a parsed record
JsNull == "<null>"           \* null where a string is expected
SqlNull == "<NULL>"          \* NULL bound to a TEXT column

StringValue(s) == [t |-> "string", s |-> s]
NumberValue(s) == [t |-> "number", s |-> s]
BooleanValue(s) == [t |-> "boolean", s |-> s]
NullValue == [t |-> "null", s |-> "null"]

\* JSON.stringify of a primitive value
JSONstringify(value) ==
    IF value.t = "string" THEN "\"" \o value.s \o "\"" ELSE value.s

---------------------------------------------------------------------------
(* The external evaluator, as a table over fixture resources *)

\* Parsed input records.  key names the fixture content the table is over.
ResourceA == [id |-> "m1", resourceType |-> "Medication", key |-> "A"]
ResourceB == [id |-> Undefined, resourceType |-> "Medication", key |-> "B"]
ResourceC == [id |-> "x1", resourceType |-> Undefined, key |-> "C"]
NoResource == [id |-> Undefined, resourceType |-> Undefined, key |-> "none"]

Resources == {ResourceA, ResourceB, ResourceC}

\* fhirpath.js ResourceNode objects: path, data, parentResNode (0 is null)
ResNode(path, data, parentResNode) ==
    [path |-> path, data |-> data, parentResNode |-> parentResNode]

NodeTable ==
    <<ResNode("Medication", NullValue, 0),            \* 1
      ResNode("CodeableConcept", NullValue, 1),       \* 2
      ResNode("Coding", NullValue, 2),                \* 3
      ResNode("code", StringValue("123"), 3),         \* 4
      ResNode("Coding", NullValue, 2),                \* 5
      ResNode("code", StringValue("456"), 5),         \* 6
      ResNode("code", StringValue("active"), 1),      \* 7
      ResNode("id", StringValue("m1"), 1),            \* 8
      ResNode("Coding", NullValue, 2),                \* 9
      ResNode("code", StringValue("789"), 9),         \* 10
      ResNode("", StringValue("x1"), 0),              \* 11
      ResNode("", NullValue, 1),                      \* 12
      ResNode("value", StringValue("v"), 12)>>        \* 13

\* what the evaluator hands to getPath: a ResourceNode or a plain value
NodeItem(ref) == [isResNode |-> TRUE, ref |-> ref, plain |-> NullValue]
PlainItem(value) == [isResNode |-> FALSE, ref |-> 0, plain |-> value]

Returns(items) == [throws |-> FALSE, items |-> items]
Throws == [throws |-> TRUE, items |-> <<>>]

\* fhirpath.evaluate(resource, expression, null, fhirpath_r4_model, ...)
\* on a record, before getPath() is applied
fhirpath_evaluate(res, expression) ==
    IF hasUnboundVariables(expression) THEN Throws
    ELSE IF expression = ExprOne
    THEN Returns(<<PlainItem(NumberValue("1"))>>)
    ELSE IF res.key = "A" THEN
        CASE expression = ExprCode -> Returns(<<NodeItem(4), NodeItem(6)>>)
          [] expression = ExprStatus -> Returns(<<NodeItem(7)>>)
          [] expression = ExprResource -> Returns(<<NodeItem(8)>>)
          [] OTHER -> Returns(<<>>)
    ELSE IF res.key = "B" THEN
        CASE expression = ExprCode ->
                Returns(<<NodeItem(4), NodeItem(10), NodeItem(6)>>)
          [] OTHER -> Returns(<<>>)
    ELSE
        CASE expression = ExprCode -> Throws
          [] expression = ExprStatus ->
                Returns(<<PlainItem(StringValue("draft"))>>)
          [] expression = ExprResource ->
                Returns(<<NodeItem(11), NodeItem(13)>>)
          [] OTHER -> Returns(<<>>)

\* fhirpath.evaluate(value, expression, null, fhirpath_r4_model) on a
\* result item's value
fhirpath_evaluate_value(value, expression) ==
    IF hasUnboundVariables(expression) THEN Throws
    ELSE IF expression = ExprThis THEN Returns(<<value>>)
    ELSE IF expression = ExprThisOne THEN Returns(<<value, NumberValue("1")>>)
    ELSE IF expression = ExprFalse THEN Returns(<<BooleanValue("false")>>)
    ELSE IF expression = ExprZero THEN Returns(<<NumberValue("0")>>)
    ELSE IF expression = ExprEmpty THEN Returns(<<StringValue("")>>)
    ELSE IF expression = ExprOne THEN Returns(<<NumberValue("1")>>)
    ELSE Returns(<<>>)

---------------------------------------------------------------------------
(* Path-Provenance Adapter *)

RECURSIVE PathParts_keepEmpty(_)
PathParts_keepEmpty(current) ==
    IF current = 0 THEN <<>>
    ELSE PathParts_keepEmpty(NodeTable[current].parentResNode)
         \o <<NodeTable[current].path>>

RECURSIVE PathParts(_)
\* the while loop of buildFullPath: the non-empty paths, root first
PathParts(current) ==
    IF current = 0 THEN <<>>
    ELSE PathParts(NodeTable[current].parentResNode)
         \o (IF NodeTable[current].path # ""
             THEN <<NodeTable[current].path>> ELSE <<>>)

RECURSIVE Join(_, _)
\* Array.prototype.join
Join(parts, sep) ==
    IF parts = <<>> THEN ""
    ELSE IF Len(parts) = 1 THEN parts[1]
    ELSE parts[1] \o sep \o Join(Tail(parts), sep)

buildFullPath(node) == Join(PathParts(node), ".")

\* the callback of inputs.map in getPathFunction.fn
getPathOf(node) ==
    IF node.isResNode
    THEN [path |-> buildFullPath(node.ref), value |-> NodeTable[node.ref].data]
    ELSE [path |-> JsNull, value |-> node.plain]

RECURSIVE getPathFunction_dropPlain(_)
getPathFunction_dropPlain(inputs) ==
    IF inputs = <<>> THEN <<>>
    ELSE (IF Head(inputs).isResNode THEN <<getPathOf(Head(inputs))>> ELSE <<>>)
         \o getPathFunction_dropPlain(Tail(inputs))

RECURSIVE getPathFunction(_)
\* inputs.map(node => ...)
getPathFunction(inputs) ==
    IF inputs = <<>> THEN <<>>
    ELSE <<getPathOf(Head(inputs))>> \o getPathFunction(Tail(inputs))

\* The result is the returned array; thrown says that the call threw
\* instead of returning.
evaluateWithPaths_noCatch(res, expression) ==
    [thrown |-> fhirpath_evaluate(res, expression).throws,
     value |-> getPathFunction(fhirpath_evaluate(res, expression).items)]

evaluateWithPaths(res, expression) ==
    IF fhirpath_evaluate(res, expression).throws
    THEN [thrown |-> FALSE, value |-> <<>>]
    ELSE [thrown |-> FALSE,
          value |-> getPathFunction(fhirpath_evaluate(res, expression).items)]

---------------------------------------------------------------------------
(* Filter Projector *)

evaluateSimple_last(value, expression) ==
    LET r == fhirpath_evaluate_value(value, expression)
    IN IF r.throws THEN NullValue
       ELSE IF Len(r.items) > 0 THEN r.items[Len(r.items)] ELSE NullValue

\* results.length > 0 ? results[0] : null, and null when evaluate throws.
evaluateSimple(value, expression) ==
    LET r == fhirpath_evaluate_value(value, expression)
    IN IF r.throws THEN NullValue
       ELSE IF Len(r.items) > 0 THEN r.items[1] ELSE NullValue

\* result[name] = value on an object kept as a sequence of entries in
\* key insertion order
SetKey(obj, name, value) ==
    IF \E i \in 1..Len(obj) : obj[i].name = name
    THEN [i \in 1..Len(obj) |->
             IF obj[i].name = name THEN [name |-> name, value |-> value]
             ELSE obj[i]]
    ELSE Append(obj, [name |-> name, value |-> value])

\* a value that a truthiness test takes for absent
Falsy(value) ==
    \/ value.t = "null"
    \/ value.t = "boolean" /\ value.s = "false"
    \/ value.t = "number" /\ value.s = "0"
    \/ value.t = "string" /\ value.s = ""

RECURSIVE FilterLoop_dropFalsy(_, _, _)
FilterLoop_dropFalsy(result, value, filters) ==
    IF filters = <<>> THEN result
    ELSE LET filter == Head(filters)
             filterValue == evaluateSimple(value, filter.valueExpression)
         IN FilterLoop_dropFalsy(
                IF ~Falsy(filterValue)
                THEN SetKey(result, filter.name, filterValue)
                ELSE result,
                value, Tail(filters))

RECURSIVE FilterLoop_abortOnThrow(_, _, _)
FilterLoop_abortOnThrow(result, value, filters) ==
    IF filters = <<>> THEN result
    ELSE LET filter == Head(filters)
             filterValue == evaluateSimple(value, filter.valueExpression)
         IN IF fhirpath_evaluate_value(value, filter.valueExpression).throws
            THEN <<>>
            ELSE FilterLoop_abortOnThrow(
                     IF filterValue.t # "null"
                     THEN SetKey(result, filter.name, filterValue)
                     ELSE result,
                     value, Tail(filters))

RECURSIVE FilterLoop(_, _, _)
\* for (const filter of filters) { ... }
FilterLoop(result, value, filters) ==
    IF filters = <<>> THEN result
    ELSE LET filter == Head(filters)
             filterValue == evaluateSimple(value, filter.valueExpression)
         IN FilterLoop(IF filterValue.t # "null"
                       THEN SetKey(result, filter.name, filterValue)
                       ELSE result,
                       value, Tail(filters))

extractFilterValues_emptyObject(value, filters) ==
    IF Len(filters) = 0 THEN None
    ELSE Some(FilterLoop(<<>>, value, filters))

\* None is null
extractFilterValues(value, filters) ==
    IF Len(filters) = 0 THEN None
    ELSE LET result == FilterLoop(<<>>, value, filters)
         IN IF Len(result) > 0 THEN Some(result) ELSE None

RECURSIVE JSONentries(_)
JSONentries(obj) ==
    IF obj = <<>> THEN <<>>
    ELSE <<"\"" \o Head(obj).name \o "\":" \o JSONstringify(Head(obj).value)>>
         \o JSONentries(Tail(obj))

\* JSON.stringify of the object returned by extractFilterValues
JSONstringifyObject(obj) == "{" \o Join(JSONentries(obj), ",") \o "}"

---------------------------------------------------------------------------
(* Inputs *)

StatusFilter == ViewVariable("status", "filter", ExprStatus, ExprThis)
UnboundOptions == ViewVariable("s", "filter", ExprVar, <<>>)
CodeParam == ViewVariable("p", "param", ExprCode, ExprThis)
OneOptions == ViewVariable("f", "filter", ExprOne, <<>>)
CodeFilter == ViewVariable("status", "filter", ExprCode, ExprThis)

SelfFilter == ViewVariable("self", "filter", <<>>, ExprThisOne)
NoneFilter == ViewVariable("none", "filter", <<>>, ExprStatus)
BadFilter == ViewVariable("bad", "filter", <<>>, ExprVar)
OneFilter == ViewVariable("one", "filter", <<>>, ExprOne)
FalseFilter == ViewVariable("false", "filter", <<>>, ExprFalse)
ZeroFilter == ViewVariable("zero", "filter", <<>>, ExprZero)
EmptyFilter == ViewVariable("empty", "filter", <<>>, ExprEmpty)

Columns == <<ViewColumn("Code", "code"), ViewColumn("Name", "display")>>

BlockShapes ==
    {MarkdownBlock,
     FhirpathListBlock(ExprCode, <<>>),
     FhirpathListBlock(ExprCode, <<StatusFilter>>),
     FhirpathListBlock(ExprStatus, <<>>),
     FhirpathTableBlock(ExprCode, <<>>, Columns),
     FhirpathTableBlock(ExprStatus, <<CodeParam>>, Columns),
     FhirpathListBlock(ExprVar, <<>>),
     FhirpathListBlock(ExprVar, <<StatusFilter>>),
     FhirpathListBlock(ExprCode, <<UnboundOptions>>),
     FhirpathListBlock(ExprResource, <<>>),
     FhirpathListBlock(ExprResourcex, <<>>),
     FhirpathListBlock(ExprStatus, <<OneOptions, CodeFilter>>)}

BlockSeqs == UNION {[1..n -> BlockShapes] : n \in 0..MaxBlocks}

\* The registries given to the extractor alone: up to MaxBlocks blocks,
\* split over two views at every position.
Registries ==
    {[views |-> <<ViewDefinition("v1", SubSeq(bs, 1, cut)),
                  ViewDefinition("v2", SubSeq(bs, cut + 1, Len(bs)))>>] :
        <<bs, cut>> \in {<<b, c>> \in BlockSeqs \X (0..MaxBlocks) : c <= Len(b)}}

\* The registries given to a build.
RegistryA ==
    [views |-> <<ViewDefinition("v1", <<MarkdownBlock,
                                        FhirpathListBlock(ExprCode, <<StatusFilter>>)>>),
                 ViewDefinition("v2", <<FhirpathTableBlock(ExprCode, <<>>, Columns),
                                        FhirpathListBlock(ExprVar, <<>>)>>)>>]
RegistryB ==
    [views |-> <<ViewDefinition("v1",
                    <<FhirpathListBlock(ExprResource,
                                        <<UnboundOptions, ZeroFilter,
                                          EmptyFilter>>)>>)>>]
RegistryC ==
    [views |-> <<ViewDefinition("v1",
                    <<FhirpathTableBlock(ExprOne, <<NoneFilter, FalseFilter>>,
                                         Columns)>>)>>]

RegistryD ==
    [views |-> <<ViewDefinition("v1",
                    <<FhirpathListBlock(ExprCode, <<NoneFilter, SelfFilter,
                                                    BadFilter, OneFilter>>),
                      FhirpathListBlock(ExprStatus, <<NoneFilter, BadFilter>>),
                      FhirpathListBlock(ExprOne, <<>>)>>)>>]

BuildRegistries == {RegistryA, RegistryB, RegistryC, RegistryD}

\* A line of the input file: whether line.trim() is empty, whether
\* JSON.parse accepts it, and what it parses to.
BlankLine == [blank |-> TRUE, valid |-> FALSE, json |-> NoResource]
BadLine == [blank |-> FALSE, valid |-> FALSE, json |-> NoResource]
JsonLine(res) == [blank |-> FALSE, valid |-> TRUE, json |-> res]

LineShapes == {BlankLine, BadLine} \cup {JsonLine(r) : r \in Resources}

InputFiles == UNION {[1..n -> LineShapes] : n \in 0..MaxLines}

\* A row of fhirpath_index.  origin is not a column: it records the input
\* line, the expression position and the result position the row was
\* built from.
FhirpathIndexRow(expression_id, id, type, path, value_json, filters, origin) ==
    [expression_id |-> expression_id, source_resource_id |-> id,
     source_resource_type |-> type, source_path |-> path,
     value_json |-> value_json, filter_values_json |-> filters,
     origin |-> origin]

\* A row left in fhirpath_index by an earlier build.
PriorRow ==
    FhirpathIndexRow("expr_0", "old", "Medication", "Medication.code",
                     "\"old\"", SqlNull, <<0, 0, 0>>)

\* The metadata rows of that earlier build.
PriorExpressionRow ==
    [id |-> "expr_0", expression |-> ExprCode, projections_json |-> None]
PriorViewRow ==
    [id |-> "v0", definition_json |-> ViewDefinition("v0", <<>>)]

---------------------------------------------------------------------------
(* Index Materializer *)

\* the generator is a separate program: it does not run during a build
GeneratorIdle ==
    /\ genPc = "idle"
    /\ rxnormData = <<>>
    /\ output = <<>>
    /\ previousOutput = <<>>

Init ==
    /\ registry \in BuildRegistries
    /\ lines \in InputFiles
    /\ BATCH_SIZE \in 1..MaxBatchSize
    /\ pc = "start"
    /\ expressions = <<>>
    /\ dbFile \in {"absent", "prior"}
    /\ dbOpen = FALSE
    /\ tblExpressions =
          IF dbFile = "prior" THEN <<PriorExpressionRow>> ELSE <<>>
    /\ tblViews = IF dbFile = "prior" THEN <<PriorViewRow>> ELSE <<>>
    /\ priorIndex = IF dbFile = "prior" THEN <<PriorRow>> ELSE <<>>
    /\ transactions = <<>>
    /\ fhirpath_index = priorIndex
    /\ idx_expr_type = IF dbFile = "prior" THEN 1 ELSE 0
    /\ linePos = 0
    /\ resource = NoResource
    /\ resourceCount = 0
    /\ rowCount = 0
    /\ batch = <<>>
    /\ exprPos = 0
    /\ results = <<>>
    /\ itemPos = 0
    /\ exitCode = -1
    /\ GeneratorIdle

\* runIndexer rejects; the catch handler of the CLI calls process.exit(1).
\* Nothing closes or removes the database.
Abort ==
    /\ pc' = "exited"
    /\ exitCode' = 1

\* YAML.parse and extractExpressions
LoadViews ==
    /\ pc = "start"
    /\ expressions' = extractExpressions(registry)
    /\ pc' = "init"
    /\ UNCHANGED <<genVars, registry, priorIndex, transactions, lines, BATCH_SIZE, dbFile, dbOpen, tblExpressions,
                   tblViews, fhirpath_index, idx_expr_type, linePos, resource,
                   resourceCount, rowCount, batch, exprPos, results, itemPos,
                   exitCode>>

\* initDatabase: unlink an existing file, create the three empty tables
initDatabase_withCompositeIndex ==
    /\ pc = "init"
    /\ dbFile' = "new"
    /\ dbOpen' = TRUE
    /\ tblExpressions' = <<>>
    /\ tblViews' = <<>>
    /\ fhirpath_index' = <<>>
    /\ idx_expr_type' = 1
    /\ pc' = "metadata"
    /\ transactions' = <<>>
    /\ UNCHANGED <<genVars, registry, priorIndex, lines, BATCH_SIZE, expressions,
                   linePos, resource, resourceCount, rowCount, batch, exprPos,
                   results, itemPos, exitCode>>

initDatabase_keepPrior ==
    /\ pc = "init"
    /\ dbFile' = "new"
    /\ dbOpen' = TRUE
    /\ pc' = "metadata"
    /\ transactions' = <<>>
    /\ UNCHANGED <<genVars, registry, priorIndex, lines, BATCH_SIZE, expressions,
                   tblExpressions, tblViews, fhirpath_index, idx_expr_type,
                   linePos, resource, resourceCount, rowCount, batch, exprPos,
                   results, itemPos, exitCode>>

initDatabase ==
    /\ pc = "init"
    /\ dbFile' = "new"
    /\ dbOpen' = TRUE
    /\ tblExpressions' = <<>>
    /\ tblViews' = <<>>
    /\ fhirpath_index' = <<>>
    /\ idx_expr_type' = 0
    /\ pc' = "metadata"
    /\ transactions' = <<>>
    /\ UNCHANGED <<genVars, registry, priorIndex, lines, BATCH_SIZE, expressions, linePos, resource,
                   resourceCount, rowCount, batch, exprPos, results, itemPos,
                   exitCode>>

ExpressionRow_sharedId(expr) ==
    [id |-> "expr_0", expression |-> expr.expression,
     projections_json |-> expr.projections]

\* expr.projections ? JSON.stringify(expr.projections) : null, kept as the
\* optional projections
ExpressionRow(expr) ==
    [id |-> expr.id, expression |-> expr.expression,
     projections_json |-> expr.projections]

ViewRow(view) == [id |-> view.id, definition_json |-> view]

\* the two loops of insertExpr.run and insertView.run
StoreMetadata ==
    /\ pc = "metadata"
    /\ tblExpressions' =
          [i \in 1..Len(expressions) |-> ExpressionRow(expressions[i])]
    /\ tblViews' = [i \in 1..Len(registry.views) |-> ViewRow(registry.views[i])]
    /\ pc' = "read"
    /\ UNCHANGED <<genVars, registry, priorIndex, transactions, lines, BATCH_SIZE, expressions, dbFile, dbOpen,
                   fhirpath_index, idx_expr_type, linePos, resource,
                   resourceCount, rowCount, batch, exprPos, results, itemPos,
                   exitCode>>

ReadBlank_counted ==
    /\ pc = "read"
    /\ linePos < Len(lines)
    /\ lines[linePos + 1].blank
    /\ linePos' = linePos + 1
    /\ resourceCount' = resourceCount + 1
    /\ UNCHANGED <<genVars, registry, priorIndex, transactions, lines,
                   BATCH_SIZE, pc, expressions, dbFile, dbOpen,
                   tblExpressions, tblViews, fhirpath_index, idx_expr_type,
                   resource, rowCount, batch, exprPos, results, itemPos,
                   exitCode>>

\* readNdjson: a line whose trim() is empty yields nothing
ReadBlank ==
    /\ pc = "read"
    /\ linePos < Len(lines)
    /\ lines[linePos + 1].blank
    /\ linePos' = linePos + 1
    /\ UNCHANGED <<genVars, registry, priorIndex, transactions, lines, BATCH_SIZE, pc, expressions, dbFile, dbOpen,
                   tblExpressions, tblViews, fhirpath_index, idx_expr_type,
                   resource, resourceCount, rowCount, batch, exprPos, results,
                   itemPos, exitCode>>

\* readNdjson: JSON.parse throws, with the line consumed but never yielded
ReadBad_skip ==
    /\ pc = "read"
    /\ linePos < Len(lines)
    /\ ~lines[linePos + 1].blank
    /\ ~lines[linePos + 1].valid
    /\ linePos' = linePos + 1
    /\ UNCHANGED <<genVars, registry, priorIndex, transactions, lines, BATCH_SIZE, pc, expressions, dbFile, dbOpen,
                   tblExpressions, tblViews, fhirpath_index, idx_expr_type,
                   resource, resourceCount, rowCount, batch, exprPos, results,
                   itemPos, exitCode>>

ReadBad ==
    /\ pc = "read"
    /\ linePos < Len(lines)
    /\ ~lines[linePos + 1].blank
    /\ ~lines[linePos + 1].valid
    /\ linePos' = linePos + 1
    /\ Abort
    /\ UNCHANGED <<genVars, registry, priorIndex, transactions, lines, BATCH_SIZE, expressions, dbFile, dbOpen,
                   tblExpressions, tblViews, fhirpath_index, idx_expr_type,
                   resource, resourceCount, rowCount, batch, exprPos, results,
                   itemPos>>

\* readNdjson yields JSON.parse(line); the loop body starts
ReadRecord ==
    /\ pc = "read"
    /\ linePos < Len(lines)
    /\ ~lines[linePos + 1].blank
    /\ lines[linePos + 1].valid
    /\ linePos' = linePos + 1
    /\ resource' = lines[linePos + 1].json
    /\ resourceCount' = resourceCount + 1
    /\ exprPos' = 1
    /\ pc' = "expr"
    /\ UNCHANGED <<genVars, registry, priorIndex, transactions, lines, BATCH_SIZE, expressions, dbFile, dbOpen,
                   tblExpressions, tblViews, fhirpath_index, idx_expr_type,
                   rowCount, batch, results, itemPos, exitCode>>

\* the input is exhausted: the for await loop ends
ReadEnd ==
    /\ pc = "read"
    /\ linePos = Len(lines)
    /\ pc' = "flush"
    /\ UNCHANGED <<genVars, registry, priorIndex, transactions, lines, BATCH_SIZE, expressions, dbFile, dbOpen,
                   tblExpressions, tblViews, fhirpath_index, idx_expr_type,
                   linePos, resource, resourceCount, rowCount, batch, exprPos,
                   results, itemPos, exitCode>>

\* const results = evaluateWithPaths(resource, expr.expression)
EvalExpr ==
    /\ pc = "expr"
    /\ exprPos <= Len(expressions)
    /\ LET r == evaluateWithPaths(resource, expressions[exprPos].expression)
       IN IF r.thrown
          THEN /\ Abort
               /\ UNCHANGED <<results, itemPos>>
          ELSE /\ results' = r.value
               /\ itemPos' = 1
               /\ pc' = "item"
               /\ UNCHANGED exitCode
    /\ UNCHANGED <<genVars, registry, priorIndex, transactions, lines, BATCH_SIZE, expressions, dbFile, dbOpen,
                   tblExpressions, tblViews, fhirpath_index, idx_expr_type,
                   linePos, resource, resourceCount, rowCount, batch, exprPos>>

\* every expression was evaluated against the record
EndRecord ==
    /\ pc = "expr"
    /\ exprPos > Len(expressions)
    /\ pc' = "read"
    /\ UNCHANGED <<genVars, registry, priorIndex, transactions, lines, BATCH_SIZE, expressions, dbFile, dbOpen,
                   tblExpressions, tblViews, fhirpath_index, idx_expr_type,
                   linePos, resource, resourceCount, rowCount, batch, exprPos,
                   results, itemPos, exitCode>>

OrUnknown_asIs(x) == x

\* x || 'unknown'
OrUnknown(x) == IF x = Undefined \/ x = "" THEN "unknown" ELSE x

OrEmpty_asIs(path) == path

\* result.path || ''
OrEmpty(path) == IF path = JsNull THEN "" ELSE path

\* const row: FhirpathIndexRow = {...}
BuildRow(expr, res, result, origin) ==
    LET filterValues ==
            IF IsSome(expr.filters)
            THEN extractFilterValues(result.value, Get(expr.filters))
            ELSE None
    IN FhirpathIndexRow(
           expr.id, OrUnknown(res.id), OrUnknown(res.resourceType),
           OrEmpty(result.path), JSONstringify(result.value),
           IF IsSome(filterValues) THEN JSONstringifyObject(Get(filterValues))
           ELSE SqlNull,
           origin)

insertMany_overwrite(table, rows) == rows

insertMany_prepend(table, rows) == rows \o table

\* insertMany(rows): one transaction that inserts the rows in order
insertMany_reversed(table, rows) ==
    table \o [i \in 1..Len(rows) |-> rows[Len(rows) + 1 - i]]

insertMany(table, rows) == table \o rows

\* the batch after batch.push(row)
Pushed ==
    Append(batch, BuildRow(expressions[exprPos], resource, results[itemPos],
                           <<linePos, exprPos, itemPos>>))

\* one iteration of "for (const result of results)"
AppendRow ==
    /\ pc = "item"
    /\ itemPos <= Len(results)
    /\ rowCount' = rowCount + 1
    /\ IF Len(Pushed) >= BATCH_SIZE
       THEN /\ fhirpath_index' = insertMany(fhirpath_index, Pushed)
            /\ transactions' = Append(transactions, Len(Pushed))
            /\ batch' = <<>>
       ELSE /\ batch' = Pushed
            /\ UNCHANGED <<fhirpath_index, transactions>>
    /\ itemPos' = itemPos + 1
    /\ UNCHANGED <<genVars, registry, priorIndex, lines, BATCH_SIZE, pc, expressions, dbFile, dbOpen,
                   tblExpressions, tblViews, idx_expr_type, linePos, resource,
                   resourceCount, exprPos, results, exitCode>>

\* the same iteration when the transaction of insertMany fails: it is
\* rolled back and the error leaves runIndexer
AppendRowSinkError ==
    /\ pc = "item"
    /\ itemPos <= Len(results)
    /\ Len(Pushed) >= BATCH_SIZE
    /\ rowCount' = rowCount + 1
    /\ batch' = Pushed
    /\ Abort
    /\ UNCHANGED <<genVars, registry, priorIndex, transactions, lines, BATCH_SIZE, expressions, dbFile, dbOpen,
                   tblExpressions, tblViews, fhirpath_index, idx_expr_type,
                   linePos, resource, resourceCount, exprPos, results, itemPos>>

\* the results of the expression are exhausted
EndExpr ==
    /\ pc = "item"
    /\ itemPos > Len(results)
    /\ exprPos' = exprPos + 1
    /\ pc' = "expr"
    /\ UNCHANGED <<genVars, registry, priorIndex, transactions, lines, BATCH_SIZE, expressions, dbFile, dbOpen,
                   tblExpressions, tblViews, fhirpath_index, idx_expr_type,
                   linePos, resource, resourceCount, rowCount, batch, results,
                   itemPos, exitCode>>

\* batch.length > 0
HasRemainder_moreThanOne(rows) == Len(rows) > 1

HasRemainder_always(rows) == TRUE

HasRemainder(rows) == Len(rows) > 0

\* if (batch.length > 0) insertMany(batch)
FinalFlush ==
    /\ pc = "flush"
    /\ fhirpath_index' =
          IF HasRemainder(batch) THEN insertMany(fhirpath_index, batch)
          ELSE fhirpath_index
    /\ pc' = "index"
    /\ transactions' =
          IF HasRemainder(batch) THEN Append(transactions, Len(batch))
          ELSE transactions
    /\ UNCHANGED <<genVars, registry, priorIndex, lines, BATCH_SIZE, expressions, dbFile, dbOpen,
                   tblExpressions, tblViews, idx_expr_type, linePos, resource,
                   resourceCount, rowCount, batch, exprPos, results, itemPos,
                   exitCode>>

\* the transaction of the last insertMany fails
FinalFlushSinkError ==
    /\ pc = "flush"
    /\ HasRemainder(batch)
    /\ Abort
    /\ UNCHANGED <<genVars, registry, priorIndex, transactions, lines, BATCH_SIZE, expressions, dbFile, dbOpen,
                   tblExpressions, tblViews, fhirpath_index, idx_expr_type,
                   linePos, resource, resourceCount, rowCount, batch, exprPos,
                   results, itemPos>>

\* CREATE INDEX idx_expr_type
CreateIndex ==
    /\ pc = "index"
    /\ idx_expr_type' = idx_expr_type + 1
    /\ pc' = "close"
    /\ UNCHANGED <<genVars, registry, priorIndex, transactions, lines, BATCH_SIZE, expressions, dbFile, dbOpen,
                   tblExpressions, tblViews, fhirpath_index, linePos, resource,
                   resourceCount, rowCount, batch, exprPos, results, itemPos,
                   exitCode>>

Close_leaveOpen ==
    /\ pc = "close"
    /\ pc' = "done"
    /\ exitCode' = 0
    /\ UNCHANGED <<genVars, registry, priorIndex, transactions, lines, BATCH_SIZE,
                   expressions, dbFile, dbOpen, tblExpressions, tblViews,
                   fhirpath_index, idx_expr_type, linePos, resource,
                   resourceCount, rowCount, batch, exprPos, results, itemPos>>

\* db.close() and the summary; runIndexer resolves
Close ==
    /\ pc = "close"
    /\ dbOpen' = FALSE
    /\ pc' = "done"
    /\ exitCode' = 0
    /\ UNCHANGED <<genVars, registry, priorIndex, transactions, lines, BATCH_SIZE, expressions, dbFile,
                   tblExpressions, tblViews, fhirpath_index, idx_expr_type,
                   linePos, resource, resourceCount, rowCount, batch, exprPos,
                   results, itemPos>>

Next ==
    \/ LoadViews
    \/ initDatabase
    \/ StoreMetadata
    \/ ReadBlank
    \/ ReadBad
    \/ ReadRecord
    \/ ReadEnd
    \/ EvalExpr
    \/ EndRecord
    \/ AppendRow
    \/ AppendRowSinkError
    \/ EndExpr
    \/ FinalFlush
    \/ FinalFlushSinkError
    \/ CreateIndex
    \/ Close

Spec == Init /\ [][Next]_vars

\* The builds over the input files of at most MaxLiveLines lines.
InitLive == Init /\ Len(lines) <= MaxLiveLines

\* runIndexer is one sequential async function over a finite file: a step
\* that can be taken is taken.
SpecLive == InitLive /\ [][Next]_vars /\ WF_vars(Next)

\* The extractor alone, over every registry of Registries.
InitExtract ==
    /\ registry \in Registries
    /\ lines = <<>>
    /\ BATCH_SIZE = 1
    /\ pc = "start"
    /\ expressions = <<>>
    /\ dbFile = "absent"
    /\ priorIndex = <<>>
    /\ transactions = <<>>
    /\ dbOpen = FALSE
    /\ tblExpressions = <<>>
    /\ tblViews = <<>>
    /\ fhirpath_index = <<>>
    /\ idx_expr_type = 0
    /\ linePos = 0
    /\ resource = NoResource
    /\ resourceCount = 0
    /\ rowCount = 0
    /\ batch = <<>>
    /\ exprPos = 0
    /\ results = <<>>
    /\ itemPos = 0
    /\ exitCode = -1
    /\ GeneratorIdle

NextExtract == LoadViews

SpecExtract == InitExtract /\ [][NextExtract]_vars

---------------------------------------------------------------------------
(* Synthetic data generator (src/src/generate-medications.ts) *)

\* Math.random() returns a number of [0, 1), here in tenths: every call
\* is a free choice among these values.
MathRandom == {2, 8}

\* the random numbers one call of generateMedication may consume
MaxDraws == 10
Draws == [1..MaxDraws -> MathRandom]

statuses == <<"active", "active", "active", "active", "inactive">>
\* the first three of the array
manufacturers == <<"Pfizer Inc.", "Novartis AG", "Merck & Co.">>

\* array[Math.floor(Math.random() * array.length)], r the random number
randomItem(array, r) == array[((r * Len(array)) \div 10) + 1]

\* Math.floor(Math.random() * (max - min + 1)) + min
randomInt(min, max, r) == ((r * (max - min + 1)) \div 10) + min

\* the lines of data/rxnorm-source.jsonl
RxNormEntry(code, form) == [code |-> code, form |-> form]
RxNormSource == <<RxNormEntry("860975", "Tab"), RxNormEntry("197361", "Cap")>>

\* rxnormData.sort(() => Math.random() - 0.5): the comparator is not
\* consistent, so the result is some permutation of the array
ShuffledOrders(seq) ==
    {[i \in 1..Len(seq) |-> seq[f[i]]] :
        f \in {g \in [1..Len(seq) -> 1..Len(seq)] :
                  \A a, b \in 1..Len(seq) : a # b => g[a] # g[b]}}

\* generateMedication(id, rxnormEntry); d holds the values returned by
\* the calls of Math.random() in the order of the calls
generateMedication(id, rxnormEntry, d) ==
    LET status == randomItem(statuses, d[1])
        hasManufacturer == d[2] > 3
        hasBatch == d[3] > 7
        m == IF hasManufacturer THEN 2 ELSE 0
    IN [resourceType |-> "Medication",
        id |-> "med-" \o ToString(id),
        status |-> status,
        code |-> rxnormEntry.code,
        form |-> rxnormEntry.form,
        manufacturer |->
            IF hasManufacturer
            THEN Some([reference |-> "Organization/org-"
                                        \o ToString(randomInt(1, 100, d[4])),
                       display |-> randomItem(manufacturers, d[5])])
            ELSE None,
        batch |->
            IF hasBatch
            THEN Some([lotNumber |->
                          "LOT-" \o ToString(randomInt(1000, 9999, d[4 + m]))
                          \o "-" \o ToString(randomInt(10, 99, d[5 + m])),
                       expirationDate |->
                          ToString(randomInt(2025, 2027, d[6 + m]))
                          \o "-" \o ToString(randomInt(1, 12, d[7 + m]))
                          \o "-" \o ToString(randomInt(1, 28, d[8 + m]))])
            ELSE None]

\* main: const rxnormData = await loadRxNormData(rxnormPath)
LoadRxNormData ==
    /\ genPc = "load"
    /\ rxnormData' = RxNormSource
    /\ genPc' = "shuffle"
    /\ UNCHANGED <<output, previousOutput, indexerVars>>

\* main: rxnormData.sort(() => Math.random() - 0.5)
Shuffle ==
    /\ genPc = "shuffle"
    /\ rxnormData' \in ShuffledOrders(rxnormData)
    /\ genPc' = "generate"
    /\ UNCHANGED <<output, previousOutput, indexerVars>>

\* one iteration of the loop of generateMedications, i = Len(output) + 1
GenerateOne ==
    /\ genPc = "generate"
    /\ Len(output) < MaxCount
    /\ \E d \in Draws :
          output' = Append(output,
              generateMedication(Len(output) + 1,
                  rxnormData[(Len(output) % Len(rxnormData)) + 1], d))
    /\ UNCHANGED <<genPc, rxnormData, previousOutput, indexerVars>>

\* writeFileSync(outputPath, output) after the last iteration
WriteOutput ==
    /\ genPc = "generate"
    /\ Len(output) = MaxCount
    /\ genPc' = "written"
    /\ UNCHANGED <<rxnormData, output, previousOutput, indexerVars>>

\* the generator is run again over the same source file
RunAgain ==
    /\ genPc = "written"
    /\ previousOutput = <<>>
    /\ previousOutput' = output
    /\ output' = <<>>
    /\ rxnormData' = <<>>
    /\ genPc' = "load"
    /\ UNCHANGED indexerVars

InitGenerate ==
    /\ genPc = "load"
    /\ rxnormData = <<>>
    /\ output = <<>>
    /\ previousOutput = <<>>
    /\ registry = RegistryC
    /\ lines = <<>>
    /\ BATCH_SIZE = 1
    /\ pc = "start"
    /\ expressions = <<>>
    /\ dbFile = "absent"
    /\ priorIndex = <<>>
    /\ transactions = <<>>
    /\ dbOpen = FALSE
    /\ tblExpressions = <<>>
    /\ tblViews = <<>>
    /\ fhirpath_index = <<>>
    /\ idx_expr_type = 0
    /\ linePos = 0
    /\ resource = NoResource
    /\ resourceCount = 0
    /\ rowCount = 0
    /\ batch = <<>>
    /\ exprPos = 0
    /\ results = <<>>
    /\ itemPos = 0
    /\ exitCode = -1

NextGenerate ==
    \/ LoadRxNormData
    \/ Shuffle
    \/ GenerateOne
    \/ WriteOutput
    \/ RunAgain

SpecGenerate == InitGenerate /\ [][NextGenerate]_vars

\* C22: two runs of the generator over the same source data write the
\* same sequence of Medication records.
C22_GeneratorDeterministic ==
    (genPc = "written" /\ previousOutput # <<>>) => output = previousOutput

---------------------------------------------------------------------------
(* Properties of the Expression Extractor, under SpecExtract *)

Range(seq) == {seq[i] : i \in 1..Len(seq)}

\* every block of the registry
AllBlocks(reg) ==
    UNION {Range(reg.views[i].blocks) : i \in 1..Len(reg.views)}

\* the blocks whose body the extractor runs to the end
Visited(block) ==
    block.type # "markdown" /\ ~hasUnboundVariables(block.expression)

RECURSIVE OptionsOf(_)
\* the non-empty optionsExpression strings of a variable list, in order
OptionsOf(variables) ==
    IF variables = <<>> THEN <<>>
    ELSE (IF Head(variables).optionsExpression # <<>>
          THEN <<Head(variables).optionsExpression>> ELSE <<>>)
         \o OptionsOf(Tail(variables))

RECURSIVE StringsOfBlocks(_)
\* the strings met in a list of blocks: each visited block's expression,
\* then the optionsExpression strings of its variables
StringsOfBlocks(blocks) ==
    IF blocks = <<>> THEN <<>>
    ELSE (IF Visited(Head(blocks))
          THEN <<Head(blocks).expression>> \o OptionsOf(Head(blocks).variables)
          ELSE <<>>)
         \o StringsOfBlocks(Tail(blocks))

RECURSIVE StringsOfViews(_)
StringsOfViews(views) ==
    IF views = <<>> THEN <<>>
    ELSE StringsOfBlocks(Head(views).blocks) \o StringsOfViews(Tail(views))

\* a sequence without the repetitions of its earlier elements
FirstSeen(seq) ==
    LET keep == {i \in 1..Len(seq) : \A j \in 1..(i - 1) : seq[j] # seq[i]}
        Rank(i) == Cardinality({j \in keep : j <= i})
    IN [k \in 1..Cardinality(keep) |->
           seq[CHOOSE i \in keep : Rank(i) = k]]

Extracted == pc # "start"

\* C1: the list returned by extractExpressions holds no two entries with
\* the same expression string, whether the string comes from a block's
\* expression, from a variable's optionsExpression, or from both.
C1_NoDuplicateExpression ==
    Extracted =>
        \A i, j \in 1..Len(expressions) :
            i # j => expressions[i].expression # expressions[j].expression

\* C1 witness: a registry was extracted in which one string is the
\* expression of two visited blocks and another occurrence of it is an
\* optionsExpression of a visited block.
C1_Witness ==
    /\ Extracted
    /\ \E i \in 1..Len(expressions) :
          LET e == expressions[i].expression
          IN /\ \E b \in AllBlocks(registry) : Visited(b) /\ b.expression = e
             /\ \E b \in AllBlocks(registry) :
                   Visited(b) /\ e \in Range(OptionsOf(b.variables))
             /\ Len(SelectSeq(StringsOfViews(registry.views),
                              LAMBDA x : x = e)) >= 3

\* C2: the k-th distinct string in first-seen order (views, then blocks,
\* then the block's variables) is the k-th entry and has id expr_k, counted
\* from 0; ids are pairwise distinct; every visited block's expression is
\* held by exactly one entry, so that two blocks with the same expression
\* share one id.
C2_IdsInFirstSeenOrder ==
    Extracted =>
        /\ Len(expressions) = Len(FirstSeen(StringsOfViews(registry.views)))
        /\ \A k \in 1..Len(expressions) :
              /\ expressions[k].id = "expr_" \o ToString(k - 1)
              /\ expressions[k].expression =
                    FirstSeen(StringsOfViews(registry.views))[k]
        /\ \A i, j \in 1..Len(expressions) :
              i # j => expressions[i].id # expressions[j].id
        /\ \A b \in AllBlocks(registry) :
              Visited(b) =>
                 Cardinality({k \in 1..Len(expressions) :
                                 expressions[k].expression = b.expression}) = 1

\* C2 witness: three ids were assigned, and a string that two blocks of
\* different views share is not the first entry.
C2_Witness ==
    /\ Extracted
    /\ Len(expressions) >= 3
    /\ \E k \in 2..Len(expressions) :
          /\ \E b \in Range(registry.views[1].blocks) :
                Visited(b) /\ b.expression = expressions[k].expression
          /\ \E b \in Range(registry.views[2].blocks) :
                Visited(b) /\ b.expression = expressions[k].expression

\* C3: no entry returned by extractExpressions has an expression string
\* that references a %-variable other than %resource, be it a block's
\* expression or a variable's optionsExpression.
C3_NoUnboundVariableIndexed ==
    Extracted =>
        \A k \in 1..Len(expressions) :
            ~hasUnboundVariables(expressions[k].expression)

\* the strings the claim C4 counts
IndexableStrings(reg) ==
    {b.expression : b \in {x \in AllBlocks(reg) : Visited(x)}}
    \cup UNION {Range(OptionsOf(b.variables)) :
                   b \in {x \in AllBlocks(reg) : x.type # "markdown"}}

\* C4: the set of extracted expression strings is the union of the
\* expressions of the non-markdown blocks without unbound variables and of
\* the optionsExpression of every variable of any non-markdown block,
\* whether or not the block's own expression is indexed.
C4_ExactlyTheIndexableStrings ==
    Extracted =>
        {expressions[k].expression : k \in 1..Len(expressions)}
            = IndexableStrings(registry)

\* the entries of the extracted list that hold a string
Holding(expr) ==
    {k \in 1..Len(expressions) : expressions[k].expression = expr}

\* the filters of an entry, none when the field is absent
FiltersOf(k) ==
    IF IsSome(expressions[k].filters) THEN Get(expressions[k].filters)
    ELSE <<>>

\* C14: for every non-markdown block whose expression is indexed, every
\* variable of kind filter with a valueExpression is a {name,
\* valueExpression} entry of the filters of the entry that holds the
\* block's expression, also when the string was first seen earlier.
C14_FiltersOnOwningEntry ==
    Extracted =>
        \A b \in AllBlocks(registry) :
            b.type # "markdown" =>
                \A k \in Holding(b.expression) :
                    \A v \in Range(b.variables) :
                        (v.type = "filter" /\ v.valueExpression # <<>>)
                        => [name |-> v.name,
                            valueExpression |-> v.valueExpression]
                               \in Range(FiltersOf(k))

\* C15: for every fhirpath-table block whose expression is indexed, the
\* entry that holds the expression carries the block's columns mapped to
\* {name: header, path: path} in column order as its projections, also
\* when the string was first seen earlier.
C15_ProjectionsOnOwningEntry ==
    Extracted =>
        \A b \in AllBlocks(registry) :
            (b.type = "fhirpath-table" /\ IsSome(b.columns)) =>
                \A k \in Holding(b.expression) :
                    /\ IsSome(expressions[k].projections)
                    /\ LET projections == Get(expressions[k].projections)
                           columns == Get(b.columns)
                       IN /\ Len(projections) = Len(columns)
                          /\ \A c \in 1..Len(columns) :
                                /\ projections[c].name = columns[c].header
                                /\ projections[c].path = columns[c].path

\* the strings that something other than a param variable contributes:
\* the expressions of the non-markdown blocks and the optionsExpression
\* of their variables that are not of kind param
NonParamStrings(reg) ==
    {b.expression : b \in {x \in AllBlocks(reg) : x.type # "markdown"}}
    \cup UNION {Range(OptionsOf(SelectSeq(b.variables,
                                          LAMBDA v : v.type # "param"))) :
                   b \in {x \in AllBlocks(reg) : x.type # "markdown"}}

\* the filter entries that the filter variables of the registry declare
FilterEntries(reg) ==
    UNION {{[name |-> v.name, valueExpression |-> v.valueExpression] :
               v \in {x \in Range(b.variables) : x.type = "filter"}} :
              b \in AllBlocks(reg)}

\* C16: a variable of kind param contributes nothing: every extracted
\* string is a block's expression or the optionsExpression of a variable
\* that is not a param, and every filters entry is declared by a filter
\* variable.
C16_ParamNeverIndexed ==
    Extracted =>
        /\ \A k \in 1..Len(expressions) :
              /\ expressions[k].expression \in NonParamStrings(registry)
              /\ \A f \in Range(FiltersOf(k)) : f \in FilterEntries(registry)

---------------------------------------------------------------------------
(* Properties of the Index Materializer, under Spec *)

\* the input lines that readNdjson yields as records
IsRecord(i) == ~lines[i].blank /\ lines[i].valid
IsBad(i) == ~lines[i].blank /\ ~lines[i].valid

\* the evaluator's answer for the record of line i and expression k
Answer(i, k) == fhirpath_evaluate(lines[i].json, expressions[k].expression)

\* the positions of the sink's rows that were built from line i and
\* expression k
RowsOfPair(i, k) ==
    {p \in 1..Len(fhirpath_index) :
        /\ fhirpath_index[p].origin[1] = i
        /\ fhirpath_index[p].origin[2] = k}

\* the value the evaluator's item stands for
ItemValue(item) ==
    IF item.isResNode THEN NodeTable[item.ref].data ELSE item.plain

\* some pair of a record and an indexed expression
Pairs == {<<i, k>> \in (1..Len(lines)) \X (1..Len(expressions)) : IsRecord(i)}

Completed == pc = "done"

\* C5: in a completed build, the number of rows of a (record, expression)
\* pair is the length of the evaluator's result sequence, zero when the
\* evaluation throws or matches nothing, and every result item has exactly
\* one row.
C5_RowCardinality ==
    Completed =>
        \A <<i, k>> \in Pairs :
            /\ Cardinality(RowsOfPair(i, k)) =
                  (IF Answer(i, k).throws THEN 0 ELSE Len(Answer(i, k).items))
            /\ \A m \in 1..Len(Answer(i, k).items) :
                  Cardinality({p \in RowsOfPair(i, k) :
                                  fhirpath_index[p].origin[3] = m}) = 1

\* C5 witness: a completed build with a pair whose evaluation throws, a
\* pair that matches nothing and a pair with several results, each with
\* its row.
C5_Witness ==
    /\ Completed
    /\ \E <<i, k>> \in Pairs : Answer(i, k).throws
    /\ \E <<i, k>> \in Pairs :
          ~Answer(i, k).throws /\ Len(Answer(i, k).items) = 0
    /\ \E <<i, k>> \in Pairs :
          Len(Answer(i, k).items) >= 2 /\ Cardinality(RowsOfPair(i, k)) >= 2

\* C6: at every point of a build, the m-th row of a pair in the sink is
\* the row of the m-th item of the evaluator's result sequence.
C6_ResultOrderKept ==
    dbFile = "new" =>
        \A p \in 1..Len(fhirpath_index) :
            LET o == fhirpath_index[p].origin
            IN /\ Cardinality({q \in 1..(p - 1) :
                                  /\ fhirpath_index[q].origin[1] = o[1]
                                  /\ fhirpath_index[q].origin[2] = o[2]})
                     = o[3] - 1
               /\ fhirpath_index[p].value_json =
                     JSONstringify(ItemValue(Answer(o[1], o[2]).items[o[3]]))

\* C6 witness: two rows of one pair sit on the two sides of a batch
\* boundary, and their values differ.
C6_Witness ==
    /\ dbFile = "new"
    /\ BATCH_SIZE >= 2
    /\ \E p \in 1..(Len(fhirpath_index) - 1) :
          /\ p % BATCH_SIZE = 0
          /\ fhirpath_index[p].origin[1] = fhirpath_index[p + 1].origin[1]
          /\ fhirpath_index[p].origin[2] = fhirpath_index[p + 1].origin[2]
          /\ fhirpath_index[p].value_json # fhirpath_index[p + 1].value_json

\* the rows of line i and expression k, in result order
RowsOfExpr(i, k) ==
    LET r == evaluateWithPaths(lines[i].json, expressions[k].expression).value
    IN [m \in 1..Len(r) |->
           BuildRow(expressions[k], lines[i].json, r[m], <<i, k, m>>)]

RECURSIVE RowsOfRecord(_, _)
RowsOfRecord(i, k) ==
    IF k > Len(expressions) THEN <<>>
    ELSE RowsOfExpr(i, k) \o RowsOfRecord(i, k + 1)

RECURSIVE Unbatched(_)
\* the sink of a build that inserts every row as soon as it is built,
\* after the first i lines
Unbatched(i) ==
    IF i = 0 THEN <<>>
    ELSE Unbatched(i - 1) \o (IF IsRecord(i) THEN RowsOfRecord(i, 1) ELSE <<>>)

\* C7: for every batch size, the sink of a completed build holds exactly
\* the rows of the build without batching, in the same order.
C7_BatchingChangesNothing ==
    Completed => fhirpath_index = Unbatched(Len(lines))

\* C7 witness: a completed build that flushed a full batch and then a
\* remainder at the end of the stream.
C7_Witness ==
    /\ Completed
    /\ BATCH_SIZE >= 2
    /\ Len(fhirpath_index) > BATCH_SIZE
    /\ Len(fhirpath_index) % BATCH_SIZE # 0

\* the evaluation at the head of the expression loop throws
AboutToThrow ==
    /\ pc = "expr"
    /\ exprPos <= Len(expressions)
    /\ fhirpath_evaluate(resource, expressions[exprPos].expression).throws

\* C8: when the evaluation of an expression against a record throws,
\* evaluateWithPaths returns the empty sequence, the pair adds no row, no
\* row is lost and the loop goes on to the next expression; a completed
\* build holds the rows of every pair after a throwing pair.
C8_ThrowingPairIsSkipped ==
    /\ [][AboutToThrow =>
             /\ pc' = "item"
             /\ results' = <<>>
             /\ exprPos' = exprPos
             /\ batch' = batch
             /\ fhirpath_index' = fhirpath_index
             /\ rowCount' = rowCount]_vars
    /\ [](pc = "item" /\ results = <<>> /\ itemPos = 1 =>
             ENABLED EndExpr)
    /\ [](Completed =>
             \A <<i, k>> \in Pairs : \A <<j, l>> \in Pairs :
                 (Answer(i, k).throws /\ (j > i \/ (j = i /\ l > k)))
                 => Cardinality(RowsOfPair(j, l)) = Len(Answer(j, l).items))

\* C8 witness: a completed build in which an evaluation threw, a later
\* expression of the same record has a row and a later record has a row.
C8_Witness ==
    /\ Completed
    /\ \E <<i, k>> \in Pairs :
          /\ Answer(i, k).throws
          /\ \E l \in (k + 1)..Len(expressions) : RowsOfPair(i, l) # {}
          /\ \E <<j, l>> \in Pairs : j > i /\ RowsOfPair(j, l) # {}
          /\ \E <<j, l>> \in Pairs : j < i /\ RowsOfPair(j, l) # {}

\* C9 as stated: once a line that JSON.parse rejects has been read, the
\* build is aborted with exit status 1 and no later line is read.
C9_InvalidLineAborts ==
    \A i \in 1..linePos :
        ~lines[i].valid =>
            /\ pc = "exited"
            /\ exitCode = 1
            /\ linePos = i

\* C9 amended: once a line that is not blank and that JSON.parse rejects
\* has been read, the build is aborted with exit status 1, no later line
\* is read, and the records counted are those before the bad line.
C9_BadLineAborts ==
    \A i \in 1..linePos :
        IsBad(i) =>
            /\ pc = "exited"
            /\ exitCode = 1
            /\ linePos = i
            /\ resourceCount = Cardinality({j \in 1..(i - 1) : IsRecord(j)})

\* C9 witness: a build aborted on a bad line that follows a record and is
\* followed by a record.
C9_Witness ==
    /\ pc = "exited"
    /\ linePos >= 2
    /\ linePos < Len(lines)
    /\ IsBad(linePos)
    /\ IsRecord(linePos - 1)
    /\ IsRecord(linePos + 1)

\* C10: a build that aborts after the sink was opened leaves no new
\* artifact at the output path.
C10_NoPartialIndexLeft ==
    (pc = "exited" /\ exitCode # 0) => dbFile # "new"

\* ---- the facets of a row ----

\* the rows of the sink that the running build has written
BuiltRows == {p \in 1..Len(fhirpath_index) : fhirpath_index[p].origin[1] > 0}

\* the evaluator's item a built row stands for
ItemOfRow(p) ==
    Answer(fhirpath_index[p].origin[1],
           fhirpath_index[p].origin[2]).items[fhirpath_index[p].origin[3]]

\* the filters declared by the expression of a built row
FiltersOfRow(p) ==
    LET e == expressions[fhirpath_index[p].origin[2]]
    IN IF IsSome(e.filters) THEN Get(e.filters) ELSE <<>>

\* the evaluator's answer for a filter's valueExpression on a value
FacetAnswer(value, filter) ==
    fhirpath_evaluate_value(value, filter.valueExpression)

\* a filter yields a value when its evaluation returns a first element
\* that is not null
Yields(value, filter) ==
    LET answer == FacetAnswer(value, filter)
    IN /\ ~answer.throws
       /\ Len(answer.items) > 0
       /\ answer.items[1].t # "null"

\* the JSON text of one facet
FacetText(value, filter) ==
    "\"" \o filter.name \o "\":"
        \o JSONstringify(FacetAnswer(value, filter).items[1])

\* the JSON object of exactly the filters that yield a value, in the
\* order of their declaration
RECURSIVE FacetTexts(_, _)
FacetTexts(value, filters) ==
    IF filters = <<>> THEN <<>>
    ELSE LET filter == Head(filters)
         IN (IF Yields(value, filter)
             THEN <<FacetText(value, filter)>> ELSE <<>>)
            \o FacetTexts(value, Tail(filters))

\* C11: the filter_values_json of a row is non-null exactly when the
\* row's expression declares filters and at least one of them yields a
\* non-null value for the row's result item; it then holds exactly the
\* facets that yield a value, and it is never the empty object.
C11_FacetsExactlyTheYielding ==
    \A p \in BuiltRows :
        LET value == ItemValue(ItemOfRow(p))
            texts == FacetTexts(value, FiltersOfRow(p))
            json == fhirpath_index[p].filter_values_json
        IN /\ (json # SqlNull) <=> (texts # <<>>)
           /\ json # "{}"
           /\ texts # <<>> => json = "{" \o Join(texts, ",") \o "}"

\* C11 witness: the sink holds a row whose expression declares filters of
\* which some yield a value and some do not, a row whose declared filters
\* all yield nothing, and a row whose expression declares no filter.
C11_Witness ==
    /\ \E p \in BuiltRows :
          /\ \E f \in Range(FiltersOfRow(p)) :
                Yields(ItemValue(ItemOfRow(p)), f)
          /\ \E f \in Range(FiltersOfRow(p)) :
                ~Yields(ItemValue(ItemOfRow(p)), f)
          /\ fhirpath_index[p].filter_values_json # SqlNull
    /\ \E p \in BuiltRows :
          /\ FiltersOfRow(p) # <<>>
          /\ fhirpath_index[p].filter_values_json = SqlNull
    /\ \E p \in BuiltRows : FiltersOfRow(p) = <<>>

\* the declared filters whose evaluation on the value does not throw
NotThrowing(value, filters) ==
    SelectSeq(filters, LAMBDA g : ~FacetAnswer(value, g).throws)

\* the result items of a pair for which some declared filter throws
ThrowingFacetItems(i, k) ==
    {m \in 1..Len(Answer(i, k).items) :
        \E f \in Range(IF IsSome(expressions[k].filters)
                        THEN Get(expressions[k].filters) ELSE <<>>) :
            FacetAnswer(ItemValue(Answer(i, k).items[m]), f).throws}

\* C12: in a completed build, a filter whose valueExpression throws for a
\* result item leaves out only its own facet: the item's row is written
\* with the facets of the other filters, and the items after it in the
\* same result have their rows too.
C12_ThrowingFacetOnlyOmitted ==
    Completed =>
        \A <<i, k>> \in Pairs : \A m \in ThrowingFacetItems(i, k) :
            /\ \E p \in RowsOfPair(i, k) :
                  /\ fhirpath_index[p].origin[3] = m
                  /\ LET texts == FacetTexts(ItemValue(ItemOfRow(p)),
                                     NotThrowing(ItemValue(ItemOfRow(p)),
                                                 FiltersOfRow(p)))
                     IN fhirpath_index[p].filter_values_json =
                          (IF texts = <<>> THEN SqlNull
                           ELSE "{" \o Join(texts, ",") \o "}")
            /\ \A n \in m..Len(Answer(i, k).items) :
                  \E p \in RowsOfPair(i, k) : fhirpath_index[p].origin[3] = n

\* C12 witness: a completed build with a result of several items whose
\* first item has a throwing filter between two filters that yield a
\* value, and whose row carries a facet.
C12_Witness ==
    /\ Completed
    /\ \E <<i, k>> \in Pairs : \E m \in ThrowingFacetItems(i, k) :
          /\ m < Len(Answer(i, k).items)
          /\ \E p \in RowsOfPair(i, k) :
                /\ fhirpath_index[p].origin[3] = m
                /\ fhirpath_index[p].filter_values_json # SqlNull
                /\ \E a, b, c \in 1..Len(FiltersOfRow(p)) :
                      /\ a < b /\ b < c
                      /\ Yields(ItemValue(ItemOfRow(p)), FiltersOfRow(p)[a])
                      /\ FacetAnswer(ItemValue(ItemOfRow(p)),
                                     FiltersOfRow(p)[b]).throws
                      /\ Yields(ItemValue(ItemOfRow(p)), FiltersOfRow(p)[c])

\* the record a built row was made from
RecordOfRow(p) == lines[fhirpath_index[p].origin[1]].json

C17_ContentFromInputOnly ==
    /\ pc = "metadata" =>
          /\ tblExpressions = <<>> /\ tblViews = <<>> /\ fhirpath_index = <<>>
          /\ idx_expr_type = 0
    /\ dbFile = "new" =>
          \A r \in Range(priorIndex) : r \notin Range(fhirpath_index)
    /\ Completed =>
          /\ expressions = extractExpressions(registry)
          /\ tblExpressions =
                [k \in 1..Len(expressions) |-> ExpressionRow(expressions[k])]
          /\ tblViews =
                [i \in 1..Len(registry.views) |-> ViewRow(registry.views[i])]
          /\ fhirpath_index = Unbatched(Len(lines))

\* C17 witness: a completed build that wrote rows over an output path
\* that held the index of an earlier build.
C17_Witness ==
    /\ Completed
    /\ priorIndex # <<>>
    /\ fhirpath_index # <<>>
    /\ tblExpressions # <<>>

\* one row sequence begins with the other
IsPrefix(s, t) == Len(s) <= Len(t) /\ \A p \in 1..Len(s) : s[p] = t[p]

\* C18: within a build, every step leaves the rows already in the sink in
\* place and unchanged: the sink before the step is a prefix of the sink
\* after it.
C18_RowsWriteOnce ==
    [][(dbFile = "new" /\ dbFile' = "new")
           => IsPrefix(fhirpath_index, fhirpath_index')]_vars

\* C18 witness: the sink holds more rows than one batch, so a flush was
\* made into a sink that already held rows.
C18_Witness ==
    /\ dbFile = "new"
    /\ Len(fhirpath_index) > BATCH_SIZE
    /\ Len(batch) > 0 /\ Len(batch) < BATCH_SIZE
    /\ pc = "item"

\* C19: from initDatabase on, the database has no composite index until
\* the step after the final flush and exactly one from then on; when the
\* index exists the sink already holds every row of the build, the
\* remainder batch included.
C19_CompositeIndexAfterBulkLoad ==
    dbFile = "new" =>
        /\ idx_expr_type = (IF pc \in {"close", "done"} THEN 1 ELSE 0)
        /\ idx_expr_type > 0 => fhirpath_index = Unbatched(Len(lines))
        /\ Completed => idx_expr_type = 1

\* C19 witness: a completed build with its composite index, whose rows
\* were written by at least one full batch and a remainder batch.
C19_Witness ==
    /\ Completed
    /\ idx_expr_type = 1
    /\ Len(fhirpath_index) > BATCH_SIZE
    /\ Len(fhirpath_index) % BATCH_SIZE # 0

\* the facets extractFilterValues returns for a built row, none when it
\* returns null
FacetsOfRow(p) ==
    LET filters == FiltersOfRow(p)
        r == extractFilterValues(ItemValue(ItemOfRow(p)), filters)
    IN IF filters # <<>> /\ IsSome(r) THEN Get(r) ELSE <<>>

\* C20: the facets stored with a row are those computed on the value of
\* the row's result item; each facet is the first element of the result
\* of its filter's valueExpression on that value, whatever the later
\* elements are, and a filter whose result is empty has no facet, also
\* when its valueExpression matches something in the whole record.
C20_FacetIsFirstOfItemValue ==
    \A p \in BuiltRows :
        LET value == ItemValue(ItemOfRow(p))
            facets == FacetsOfRow(p)
            filters == FiltersOfRow(p)
        IN /\ fhirpath_index[p].filter_values_json =
                 (IF facets = <<>> THEN SqlNull
                  ELSE JSONstringifyObject(facets))
           /\ \A e \in Range(facets) :
                 \E n \in 1..Len(filters) :
                     /\ filters[n].name = e.name
                     /\ LET answer == FacetAnswer(value, filters[n])
                        IN /\ ~answer.throws
                           /\ Len(answer.items) > 0
                           /\ e.value = answer.items[1]
           /\ \A n \in 1..Len(filters) :
                 LET answer == FacetAnswer(value, filters[n])
                 IN (~answer.throws /\ answer.items = <<>>)
                    => \A e \in Range(facets) : e.name # filters[n].name

\* C20 witness: a row with a filter whose result on the item's value has
\* two different elements, and with a filter whose valueExpression
\* matches nothing in the item's value but something in the row's record.
C20_Witness ==
    \E p \in BuiltRows :
        LET value == ItemValue(ItemOfRow(p))
        IN /\ \E f \in Range(FiltersOfRow(p)) :
                 /\ Len(FacetAnswer(value, f).items) >= 2
                 /\ FacetAnswer(value, f).items[1]
                       # FacetAnswer(value, f).items[2]
                 /\ \E e \in Range(FacetsOfRow(p)) : e.name = f.name
           /\ \E g \in Range(FiltersOfRow(p)) :
                 /\ ~FacetAnswer(value, g).throws
                 /\ FacetAnswer(value, g).items = <<>>
                 /\ Len(fhirpath_evaluate(RecordOfRow(p),
                                          g.valueExpression).items) > 0

\* the node of a built row whose item is a provenance node, 0 otherwise
NodeOfRow(p) ==
    LET item == ItemOfRow(p)
    IN IF item.isResNode THEN item.ref ELSE 0

RECURSIVE Ancestry(_)
\* a node's ancestors and the node itself, root first
Ancestry(n) ==
    IF n = 0 THEN <<>>
    ELSE Ancestry(NodeTable[n].parentResNode) \o <<n>>

\* the segment names of a chain that are not empty
Segments(chain) ==
    SelectSeq([c \in 1..Len(chain) |-> NodeTable[chain[c]].path],
              LAMBDA name : name # "")

RECURSIVE DotJoined(_)
\* the names with a dot between two neighbours
DotJoined(names) ==
    IF names = <<>> THEN ""
    ELSE IF Len(names) = 1 THEN names[1]
    ELSE DotJoined(SubSeq(names, 1, Len(names) - 1))
         \o "." \o names[Len(names)]

\* C23: the path stored for a provenance node is the dot-join of the
\* non-empty segment names of its ancestors and of the node, root first
\* and the node last; an ancestor without a name adds neither a segment
\* nor a dot.
C23_PathIsDotJoinRootFirst ==
    \A p \in BuiltRows :
        LET node == NodeOfRow(p)
        IN node # 0 =>
              fhirpath_index[p].source_path = DotJoined(Segments(Ancestry(node)))

\* C23 witness: the sink holds the row of a node below the root and the
\* row of a node whose parent has no segment name.
C23_Witness ==
    /\ \E p \in BuiltRows :
          /\ NodeOfRow(p) # 0
          /\ Len(Ancestry(NodeOfRow(p))) = 2
          /\ fhirpath_index[p].source_path = "Medication.id"
    /\ \E p \in BuiltRows :
          /\ NodeOfRow(p) # 0
          /\ Len(Segments(Ancestry(NodeOfRow(p))))
                < Len(Ancestry(NodeOfRow(p)))
          /\ fhirpath_index[p].source_path = "Medication.value"

\* lexicographic order of (record position, expression position, item
\* position)
Before(a, b) ==
    \/ a[1] < b[1]
    \/ a[1] = b[1] /\ a[2] < b[2]
    \/ a[1] = b[1] /\ a[2] = b[2] /\ a[3] < b[3]

\* C24: the rows of the sink are in the lexicographic order of the
\* position of their record in the input, of their expression in the
\* extracted list and of their item in the evaluator's result.
C24_RowsInProcessingOrder ==
    dbFile = "new" =>
        \A p, q \in BuiltRows :
            p < q => Before(fhirpath_index[p].origin, fhirpath_index[q].origin)

\* C24 witness: the sink holds rows of two records, rows of two
\* expressions of one record and rows of two items of one result, written
\* by more than one flush.
C24_Witness ==
    /\ dbFile = "new"
    /\ Len(fhirpath_index) > BATCH_SIZE
    /\ \E p, q \in BuiltRows :
          fhirpath_index[p].origin[1] < fhirpath_index[q].origin[1]
    /\ \E p, q \in BuiltRows :
          /\ fhirpath_index[p].origin[1] = fhirpath_index[q].origin[1]
          /\ fhirpath_index[p].origin[2] < fhirpath_index[q].origin[2]
    /\ \E p, q \in BuiltRows :
          /\ fhirpath_index[p].origin[1] = fhirpath_index[q].origin[1]
          /\ fhirpath_index[p].origin[2] = fhirpath_index[q].origin[2]
          /\ fhirpath_index[p].origin[3] < fhirpath_index[q].origin[3]

\* the rows of the batch that are not in the sink yet
PendingRows == {r \in Range(batch) : r \notin Range(fhirpath_index)}

\* the completed state of a build
CompletedState ==
    /\ Completed
    /\ linePos = Len(lines)
    /\ fhirpath_index = Unbatched(Len(lines))
    /\ PendingRows = {}
    /\ idx_expr_type = 1
    /\ ~dbOpen

\* C25: a build in which no fatal error occurs, whatever expression and
\* filter evaluations throw, eventually reaches its completed state:
\* every record processed, no row pending, the composite index created
\* and the database closed.
C25_BuildCompletes ==
    [](pc # "exited") => <>CompletedState

\* C25 witness: a completed build over a record that has an expression
\* whose evaluation throws and a result item with a filter whose
\* evaluation throws, and that wrote rows.
C25_Witness ==
    /\ CompletedState
    /\ resourceCount = 1
    /\ fhirpath_index # <<>>
    /\ \E <<i, k>> \in Pairs : Answer(i, k).throws
    /\ \E <<i, k>> \in Pairs : ThrowingFacetItems(i, k) # {}

\* the build is in its record loop or about to make the final flush
Loading == pc \in {"metadata", "read", "expr", "item", "flush"}

\* the build is past the final flush
Loaded == pc \in {"index", "close", "done"}

\* the transactions before the last one
EarlierTransactions == SubSeq(transactions, 1, Len(transactions) - 1)

\* C26: after every row-append step the pending batch holds fewer than
\* BATCH_SIZE rows; every flush of the record loop writes exactly
\* BATCH_SIZE rows in one transaction, so that until the final flush the
\* number of rows of the sink is a multiple of BATCH_SIZE; the final flush
\* writes the 1 to BATCH_SIZE - 1 pending rows in one transaction, and no
\* transaction is made when nothing is pending.
C26_BatchDiscipline ==
    dbFile = "new" =>
        /\ \A t \in 1..Len(transactions) : transactions[t] > 0
        /\ Loading =>
              /\ Len(batch) < BATCH_SIZE
              /\ Len(fhirpath_index) % BATCH_SIZE = 0
              /\ \A t \in 1..Len(transactions) : transactions[t] = BATCH_SIZE
              /\ Len(fhirpath_index) = Len(transactions) * BATCH_SIZE
        /\ (Loaded /\ batch = <<>>) =>
              /\ \A t \in 1..Len(transactions) : transactions[t] = BATCH_SIZE
              /\ Len(fhirpath_index) = Len(transactions) * BATCH_SIZE
        /\ (Loaded /\ batch # <<>>) =>
              /\ transactions # <<>>
              /\ transactions[Len(transactions)] = Len(batch)
              /\ Len(batch) \in 1..(BATCH_SIZE - 1)
              /\ \A t \in 1..Len(EarlierTransactions) :
                    EarlierTransactions[t] = BATCH_SIZE
              /\ Len(fhirpath_index) =
                    Len(EarlierTransactions) * BATCH_SIZE + Len(batch)

\* C26 witness: a completed build that made two full flushes and a final
\* flush of a smaller remainder.
C26_Witness ==
    /\ Completed
    /\ Len(transactions) = 3
    /\ transactions[1] = BATCH_SIZE /\ transactions[2] = BATCH_SIZE
    /\ transactions[3] < BATCH_SIZE
    /\ BATCH_SIZE > 1

\* the lines read so far that are not blank
NonBlankRead == {i \in 1..linePos : ~lines[i].blank}

\* C27: while the build runs, rowCount is the number of rows of the sink
\* plus the number of rows of the pending batch, and at completion the
\* number of rows of fhirpath_index; resourceCount is the number of
\* non-blank lines read so far; a blank line gives no record and no row.
C27_CountersMatchContent ==
    (dbFile = "new" /\ pc # "exited") =>
        /\ Loading => rowCount = Len(fhirpath_index) + Len(batch)
        /\ Loaded => rowCount = Len(fhirpath_index)
        /\ resourceCount = Cardinality(NonBlankRead)
        /\ \A p \in BuiltRows : ~lines[fhirpath_index[p].origin[1]].blank
        /\ \A r \in Range(batch) : ~lines[r.origin[1]].blank

\* C27 witness: a build in its record loop that has read a blank line and
\* two records, with rows in the sink and rows in the pending batch.
C27_Witness ==
    /\ dbFile = "new"
    /\ Loading
    /\ \E i \in 1..linePos : lines[i].blank
    /\ resourceCount = 2
    /\ fhirpath_index # <<>>
    /\ batch # <<>>
    /\ rowCount = Len(fhirpath_index) + Len(batch)

\* the metadata of the running build has been written
MetadataStored == dbFile = "new" /\ pc # "metadata"

\* C28: the expressions table holds exactly one row per extracted entry
\* and the views table one row per view, written before any index row
\* and not changed afterwards; in every state the expression_id of every
\* index row is the id of a row of the expressions table.
C28_MetadataOncePerEntry ==
    /\ \A p \in 1..Len(fhirpath_index) :
          \E e \in 1..Len(tblExpressions) :
              tblExpressions[e].id = fhirpath_index[p].expression_id
    /\ (dbFile = "new" /\ pc = "metadata") =>
          fhirpath_index = <<>> /\ batch = <<>>
    /\ MetadataStored =>
          /\ Len(tblExpressions) = Len(expressions)
          /\ \A k \in 1..Len(expressions) :
                /\ tblExpressions[k].id = expressions[k].id
                /\ tblExpressions[k].expression = expressions[k].expression
          /\ Len(tblViews) = Len(registry.views)
          /\ \A i \in 1..Len(registry.views) :
                tblViews[i].id = registry.views[i].id

\* C28 witness: a completed build over two views whose sink holds rows of
\* two expressions.
C28_Witness ==
    /\ Completed
    /\ Len(tblViews) = 2
    /\ Len(tblExpressions) >= 2
    /\ \E p, q \in BuiltRows :
          fhirpath_index[p].expression_id # fhirpath_index[q].expression_id

\* C29: the path of a result item is null exactly when the evaluator's
\* item is not a provenance node; the source_path of a row is never null:
\* it is the empty string for a null or empty path and the path itself
\* otherwise.
C29_PathNullOnlyWithoutProvenance ==
    /\ pc = "item" =>
          \A m \in 1..Len(results) :
              (results[m].path = JsNull)
                  <=> ~Answer(linePos, exprPos).items[m].isResNode
    /\ \A p \in BuiltRows :
          LET item == ItemOfRow(p)
              path == fhirpath_index[p].source_path
          IN /\ path \notin {JsNull, SqlNull, Undefined}
             /\ ~item.isResNode => path = ""
             /\ item.isResNode =>
                   path = DotJoined(Segments(Ancestry(item.ref)))

\* C29 witness: the sink holds a row of a plain value, stored with the
\* empty path, and a row of a provenance node with its path, while the
\* results being appended hold an item without path.
C29_Witness ==
    /\ pc = "item"
    /\ \E m \in 1..Len(results) : results[m].path = JsNull
    /\ \E p \in BuiltRows :
          ~ItemOfRow(p).isResNode /\ fhirpath_index[p].source_path = ""
    /\ \E p \in BuiltRows :
          ItemOfRow(p).isResNode /\ fhirpath_index[p].source_path # ""

\* every filter whose first value is false, 0 or the empty string has its
\* facet in the row
FalsyFacetsPresent ==
    \A p \in BuiltRows :
        LET value == ItemValue(ItemOfRow(p))
            facets == FacetsOfRow(p)
            filters == FiltersOfRow(p)
        IN \A n \in 1..Len(filters) :
              LET answer == FacetAnswer(value, filters[n])
              IN (/\ ~answer.throws
                  /\ Len(answer.items) > 0
                  /\ answer.items[1].t # "null"
                  /\ Falsy(answer.items[1]))
                 => /\ \E e \in Range(facets) :
                          /\ e.name = filters[n].name
                          /\ e.value = answer.items[1]
                    /\ fhirpath_index[p].filter_values_json
                          = JSONstringifyObject(facets)
                    /\ fhirpath_index[p].filter_values_json
                          \notin {SqlNull, "{}"}

\* the rows with the number 0 and the empty string as facets
ZeroAndEmptyFacets ==
    \A p \in BuiltRows :
        LET filters == FiltersOfRow(p)
        IN (Len(filters) = 2
               /\ filters[1].valueExpression = ExprZero
               /\ filters[2].valueExpression = ExprEmpty)
           => fhirpath_index[p].filter_values_json
                 = "{\"zero\":0,\"empty\":\"\"}"

\* C30: a filter whose first value is false, 0 or the empty string has
\* its facet in filter_values_json under its name; only null results are
\* left out, so that a row whose only facet is false has a non-null
\* filter_values_json.
C30_FalsyFacetKept == FalsyFacetsPresent /\ ZeroAndEmptyFacets

\* C30 witness: a row whose only facet is false, stored as the JSON
\* object of that facet, in a sink written over records of a registry
\* whose other filter yields nothing.
C30_Witness ==
    \E p \in BuiltRows :
        /\ Len(FiltersOfRow(p)) = 2
        /\ Len(FacetsOfRow(p)) = 1
        /\ FacetsOfRow(p)[1].value = BooleanValue("false")
        /\ fhirpath_index[p].filter_values_json = "{\"false\":false}"

====
